---- MODULE Spec2Model ----
(***************************************************************************)
(* Model of testbed/kepler10_detection.py: the light-curve loader, the     *)
(* median preprocessor, the periodogram peak selection, the phase fold and *)
(* the entry point that composes them.                                     *)
(*                                                                         *)
(* Numbers.  Times, epochs and periods are integers in a fixed scaled unit *)
(* (one unit = half a day, the step of a period grid that starts at 0.5).  *)
(* Flux values are exact extended rationals <<num, den>> with den >= 0 in  *)
(* lowest terms: den > 0 is the finite value num/den, <<1,0>> is +inf,     *)
(* <<-1,0>> is -inf and <<0,0>> is NaN, the three values numpy's float     *)
(* division yields for a zero divisor.                                     *)
(***************************************************************************)
EXTENDS Integers, Sequences, FiniteSets, TLC

VARIABLES
    \* ---- the entry point and load_lightcurve ----
    pc,              \* position of the run
    archive,         \* what the archive holds for the target: [n, layout]
    i,               \* loop variable of load_lightcurve
    lc_combined,     \* list of downloaded, cleaned, normalised segments
    attempts,        \* history: indices whose download() was called, in order
    failure,         \* "none", or the kind of the uncaught exception
    handed,          \* history: segment ids of the collection given to stitch
    stitched,        \* history: stitch() was called
    stages,          \* history: functions called by the entry point, in order
    time, flux,      \* the entry point's variables time and flux
    loadOut,         \* history: what load_lightcurve returned
    detIn,           \* history: the arguments detect_transits received
    results,         \* the surface returned by the search engine
    best,            \* <<period, t0, duration>> returned by detect_transits
    valIn,           \* history: the arguments validate_transits received
    folded_time,     \* validate_transits' folded_time (doubled, see Fold2)
    \* ---- phase fold applied to one timestamp ----
    fpc, ft, ft0, fperiod, fphase, fphaseNext,
    \* ---- preprocess_lightcurve applied once and twice ----
    ppc, pin, pout1, pout2,
    \* ---- detect_transits' selection applied to a surface ----
    dpc, dsurf, dout

pipeVars == <<pc, archive, i, lc_combined, attempts, failure, handed, stitched,
              stages, time, flux, loadOut, detIn, results, best, valIn,
              folded_time>>
foldVars == <<fpc, ft, ft0, fperiod, fphase, fphaseNext>>
preVars  == <<ppc, pin, pout1, pout2>>
detVars  == <<dpc, dsurf, dout>>
vars     == <<pipeVars, foldVars, preVars, detVars>>
\* what a step of the run leaves alone
others   == <<foldVars, preVars, detVars>>

(***************************************************************************)
(* Bounds of the model.                                                    *)
(***************************************************************************)
MaxSegs   == 22      \* archive search results: 0 .. MaxSegs segments
MaxLen    == 4       \* samples of a light curve given to the preprocessor
MaxFlux   == 2       \* preprocessor flux values: -MaxFlux .. MaxFlux
MaxT      == 6       \* fold timestamps: -MaxT .. MaxT
MaxT0     == 3       \* fold epochs: -MaxT0 .. MaxT0
MaxPeriod == 4       \* fold periods: 1 .. MaxPeriod
MaxGrid   == 3       \* points of a result surface: 1 .. MaxGrid
MaxPower  == 2       \* statistic values: 0 .. MaxPower

\* the segment cap, range(0, min(20, len(lc_search_results)))
SegmentCap == 20

(***************************************************************************)
(* Exact extended-rational arithmetic (the values of a float array).       *)
(***************************************************************************)
Abs(x) == IF x < 0 THEN -x ELSE x
Sgn(x) == IF x < 0 THEN -1 ELSE 1
Min(a, b) == IF a < b THEN a ELSE b

RECURSIVE Gcd(_, _)
Gcd(a, b) == IF b = 0 THEN a ELSE Gcd(b, a % b)

\* num/den with den >= 0, in lowest terms; den = 0 keeps only the sign of num
Norm(num, den) ==
    IF den = 0
    THEN <<(IF num > 0 THEN 1 ELSE IF num < 0 THEN -1 ELSE 0), 0>>
    ELSE LET g == Gcd(Abs(num), den)
         IN  <<num \div g, den \div g>>

Rat(k)   == <<k, 1>>
NaN      == <<0, 0>>
One      == <<1, 1>>
Zero     == <<0, 1>>
IsNaN(x) == x = NaN

\* x / y of IEEE floats, exact on finite values: finite/0 is +-inf, 0/0 and
\* inf/inf are NaN, NaN propagates
Div(x, y) == Norm(x[1] * y[2] * Sgn(y[1]), x[2] * Abs(y[1]))

\* x * y
Mul(x, y) == Norm(x[1] * y[1], x[2] * y[2])

\* x + y; inf + (-inf) is NaN
Add(x, y) ==
    IF x[2] = 0 /\ y[2] = 0
    THEN (IF x = y THEN x ELSE NaN)
    ELSE Norm(x[1] * y[2] + y[1] * x[2], x[2] * y[2])

\* x < y on non-NaN values
Lt(x, y) ==
    IF x[2] = 0 /\ y[2] = 0 THEN x[1] < y[1]
    ELSE x[1] * y[2] < y[1] * x[2]

\* insertion of x into an ascending sequence
RECURSIVE Insert(_, _)
Insert(x, s) ==
    IF s = <<>> THEN <<x>>
    ELSE IF Lt(x, Head(s)) THEN <<x>> \o s
    ELSE <<Head(s)>> \o Insert(x, Tail(s))

RECURSIVE Sort(_)
Sort(s) == IF s = <<>> THEN <<>> ELSE Insert(Head(s), Sort(Tail(s)))

RECURSIVE Sum(_)
Sum(s) == IF s = <<>> THEN Zero ELSE Add(Head(s), Sum(Tail(s)))

\* np.median: NaN for an empty array or when a NaN is present, the middle
\* value of the sorted array for an odd length, the mean of the two middle
\* values for an even length
Median(a) ==
    IF a = <<>> \/ \E k \in 1..Len(a) : IsNaN(a[k]) THEN NaN
    ELSE LET s == Sort(a)
             n == Len(a)
         IN  IF n % 2 = 1 THEN s[(n + 1) \div 2]
             ELSE Div(Add(s[n \div 2], s[n \div 2 + 1]), Rat(2))

\* np.mean
Mean(a) == IF a = <<>> THEN NaN ELSE Div(Sum(a), Rat(Len(a)))

\* flux / scalar, elementwise
DivAll(a, m) == [k \in 1..Len(a) |-> Div(a[k], m)]
MulAll(a, m) == [k \in 1..Len(a) |-> Mul(a[k], m)]

(***************************************************************************)
(* Step 2: preprocess_lightcurve(time, flux) -> (time, flux)               *)
(***************************************************************************)
\* faulty variant: normalises by the mean instead of the median
preprocess_lightcurve_Mean(t, f) == <<t, DivAll(f, Mean(f))>>

\* faulty variant: multiplies by the median instead of dividing
preprocess_lightcurve_Mul(t, f) == <<t, MulAll(f, Median(f))>>

preprocess_lightcurve(t, f) == <<t, DivAll(f, Median(f))>>

(***************************************************************************)
(* Step 4: the phase fold of validate_transits,                            *)
(*   folded_time = ((time - t0 + 0.5*period) % period) - 0.5*period.       *)
(* Fold2 is twice that value, so that 0.5*period stays an integer:         *)
(*   2*folded = ((2*(t - t0) + period) mod (2*period)) - period.           *)
(* Python's and numpy's % takes the sign of the divisor; for period > 0 it *)
(* is the mathematical modulus, as is TLA+'s %.                            *)
(***************************************************************************)
\* C's fmod / truncated remainder: takes the sign of the dividend
TruncRem(a, b) == Sgn(a) * (Abs(a) % b)

\* faulty variant: a truncated remainder in place of the floored one
Fold2_Trunc(t, t0, period) == TruncRem(2 * (t - t0) + period, 2 * period) - period

\* faulty variant: the half period is added but never subtracted again
Fold2_NoShift(t, t0, period) == (2 * (t - t0) + period) % (2 * period)

Fold2(t, t0, period) == ((2 * (t - t0) + period) % (2 * period)) - period

(***************************************************************************)
(* Step 3: detect_transits.  The box-least-squares engine is a black box   *)
(* that returns a surface: index-aligned arrays period, power,             *)
(* transit_time and duration.                                              *)
(***************************************************************************)
\* the trial-period grid np.linspace(0.5, ..): the k-th period is k units
PeriodGrid(g) == [k \in 1..g |-> k]

\* indices into the trial-duration grid
DurationGrid == {1, 2}

\* np.argmax as a left-to-right scan keeping the first maximum; indices are
\* Python's, 0-based
RECURSIVE ArgMaxScan(_, _, _)
ArgMaxScan(p, k, b) ==
    IF k > Len(p) THEN b - 1
    ELSE ArgMaxScan(p, k + 1, IF p[k] > p[b] THEN k ELSE b)

\* faulty variant: a scan that keeps the last maximum
RECURSIVE ArgMaxScanLast(_, _, _)
ArgMaxScanLast(p, k, b) ==
    IF k > Len(p) THEN b - 1
    ELSE ArgMaxScanLast(p, k + 1, IF p[k] >= p[b] THEN k ELSE b)

argmax_Last(p) == ArgMaxScanLast(p, 1, 1)

argmax(p) == ArgMaxScan(p, 1, 1)

\* lines 59-65: the strongest candidate of a surface and the surface itself
detect_select(res) ==
    LET best_idx == argmax(res.power)
    IN  [period   |-> res.period[best_idx + 1],
         t0       |-> res.transit_time[best_idx + 1],
         duration |-> res.duration[best_idx + 1],
         results  |-> res]

\* a surface of g grid points
Surface(g, pw, tt, du) ==
    [period |-> PeriodGrid(g), power |-> pw, transit_time |-> tt, duration |-> du]

(***************************************************************************)
(* Idle values: a specification of one part holds the other parts fixed.   *)
(***************************************************************************)
NoCurve == [time |-> <<>>, flux |-> <<>>]
NoSurface == [period |-> <<>>, power |-> <<>>, transit_time |-> <<>>, duration |-> <<>>]
NoCandidate == [period |-> 0, t0 |-> 0, duration |-> 0, results |-> NoSurface]

PipeIdle ==
    /\ pc = "idle" /\ archive = [n |-> 0, layout |-> "ordered", gaps |-> FALSE]
    /\ i = 0 /\ lc_combined = <<>> /\ attempts = <<>> /\ failure = "none"
    /\ handed = <<>> /\ stitched = FALSE /\ stages = <<>>
    /\ time = <<>> /\ flux = <<>> /\ loadOut = NoCurve /\ detIn = NoCurve
    /\ results = NoSurface /\ best = NoCandidate
    /\ valIn = [time |-> <<>>, flux |-> <<>>, period |-> 0, t0 |-> 0, duration |-> 0]
    /\ folded_time = <<>>

FoldIdle ==
    /\ fpc = "idle" /\ ft = 0 /\ ft0 = 0 /\ fperiod = 1
    /\ fphase = 0 /\ fphaseNext = 0

PreIdle == ppc = "idle" /\ pin = NoCurve /\ pout1 = NoCurve /\ pout2 = NoCurve

DetIdle == dpc = "idle" /\ dsurf = NoSurface /\ dout = NoCandidate

(***************************************************************************)
(* The phase fold on one timestamp t and on t + period.                    *)
(***************************************************************************)
FoldInit ==
    /\ fpc = "in"
    /\ ft \in -MaxT..MaxT
    /\ ft0 \in -MaxT0..MaxT0
    /\ fperiod \in 1..MaxPeriod
    /\ fphase = 0 /\ fphaseNext = 0
    /\ PipeIdle /\ PreIdle /\ DetIdle

FoldApply ==
    /\ fpc = "in"
    /\ fphase' = Fold2(ft, ft0, fperiod)
    /\ fphaseNext' = Fold2(ft + fperiod, ft0, fperiod)
    /\ fpc' = "folded"
    /\ UNCHANGED <<ft, ft0, fperiod, pipeVars, preVars, detVars>>

FoldNext == FoldApply

SpecFold == FoldInit /\ [][FoldNext]_vars

(***************************************************************************)
(* preprocess_lightcurve applied once, then again to its own output.       *)
(***************************************************************************)
\* the flux values a light curve is drawn from
FluxValues == { Rat(v) : v \in -MaxFlux..MaxFlux }

AsCurve(tf) == [time |-> tf[1], flux |-> tf[2]]

PreInit ==
    /\ ppc = "in"
    \* valid light curves: equal lengths, ascending time, no missing values
    /\ \E n \in 0..MaxLen :
          \E s \in {0, 1}, f \in [1..n -> FluxValues] :
              pin = [time |-> [k \in 1..n |-> s + k], flux |-> f]
    /\ pout1 = NoCurve /\ pout2 = NoCurve
    /\ PipeIdle /\ FoldIdle /\ DetIdle

PreApply ==
    /\ ppc = "in"
    /\ pout1' = AsCurve(preprocess_lightcurve(pin.time, pin.flux))
    /\ ppc' = "once"
    /\ UNCHANGED <<pin, pout2, pipeVars, foldVars, detVars>>

PreApplyAgain ==
    /\ ppc = "once"
    /\ pout2' = AsCurve(preprocess_lightcurve(pout1.time, pout1.flux))
    /\ ppc' = "twice"
    /\ UNCHANGED <<pin, pout1, pipeVars, foldVars, detVars>>

PreNext == PreApply \/ PreApplyAgain

SpecPre == PreInit /\ [][PreNext]_vars

(***************************************************************************)
(* detect_transits' selection applied to a surface.                        *)
(***************************************************************************)
DetInit ==
    /\ dpc = "in"
    \* every surface of 1 .. MaxGrid points with statistics 0 .. MaxPower
    /\ \E g \in 1..MaxGrid :
          \E pw \in [1..g -> 0..MaxPower], tt \in [1..g -> 0..1],
             du \in [1..g -> DurationGrid] :
              dsurf = Surface(g, pw, tt, du)
    /\ dout = NoCandidate
    /\ PipeIdle /\ FoldIdle /\ PreIdle

DetSelect ==
    /\ dpc = "in"
    /\ dout' = detect_select(dsurf)
    /\ dpc' = "selected"
    /\ UNCHANGED <<dsurf, pipeVars, foldVars, preVars>>

DetNext == DetSelect

SpecDetect == DetInit /\ [][DetNext]_vars

(***************************************************************************)
(* Step 1: load_lightcurve, and the archive it reads.                      *)
(*                                                                         *)
(* The archive answers a search with archive.n segments.  Segment k        *)
(* (0-based, in the archive's listed order) holds SegLen samples; its time *)
(* range depends on the layout: "ordered" lists the segments in time       *)
(* order without overlap, "reversed" lists them latest first, and          *)
(* "overlapping" lists them in time order with each range overlapping the  *)
(* next.  With archive.gaps some samples carry a missing (NaN) flux.       *)
(***************************************************************************)
SegLen == 3

Layouts == {"ordered", "reversed", "overlapping"}

Archives == [n : 0..MaxSegs, layout : Layouts, gaps : BOOLEAN]

SegBase(a, k) ==
    CASE a.layout = "ordered"     -> SegLen * k
      [] a.layout = "reversed"    -> SegLen * (a.n - 1 - k)
      [] a.layout = "overlapping" -> k

\* lc_search_results[k].download(): the raw segment
RawSegment(a, k) ==
    [id   |-> k,
     time |-> [j \in 1..SegLen |-> SegBase(a, k) + j],
     flux |-> [j \in 1..SegLen |->
                 IF a.gaps /\ (k + j) % SegLen = 0 THEN NaN
                 ELSE Rat(10 + ((k + 2 * j) % 4))]]

\* the subsequence of s at the indices where keep is TRUE
RECURSIVE Select(_, _)
Select(s, keep) ==
    IF s = <<>> THEN <<>>
    ELSE (IF Head(keep) THEN <<Head(s)>> ELSE <<>>) \o Select(Tail(s), Tail(keep))

\* lc.remove_nans(): drops the cadences whose flux is missing
remove_nans(lc) ==
    LET keep == [j \in 1..Len(lc.flux) |-> ~IsNaN(lc.flux[j])]
    IN  [id |-> lc.id, time |-> Select(lc.time, keep), flux |-> Select(lc.flux, keep)]

\* lc.normalize(): the segment's flux over its own median
normalize(lc) ==
    [id |-> lc.id, time |-> lc.time, flux |-> DivAll(lc.flux, Median(lc.flux))]

RECURSIVE Concat(_, _)
Concat(lcs, field) ==
    IF lcs = <<>> THEN <<>>
    ELSE (IF field = "time" THEN Head(lcs).time ELSE Head(lcs).flux)
         \o Concat(Tail(lcs), field)

Reverse(s) == [k \in 1..Len(s) |-> s[Len(s) + 1 - k]]

\* faulty variant: the segments are joined last first
stitch_Reversed(lcs) ==
    LET cs == Reverse([k \in 1..Len(lcs) |-> normalize(lcs[k])])
    IN  [time |-> Concat(cs, "time"), flux |-> Concat(cs, "flux")]

\* LightCurveCollection(lc_combined).stitch(): every segment goes through the
\* default corrector (normalize) and the segments are joined end to end in the
\* collection's order; nothing is sorted
stitch(lcs) ==
    LET cs == [k \in 1..Len(lcs) |-> normalize(lcs[k])]
    IN  [time |-> Concat(cs, "time"), flux |-> Concat(cs, "flux")]

\* faulty variant: the loop runs over every search result
LoopBound_NoCap(n) == n

\* range(0, min(20, len(lc_search_results)))
LoopBound(n) == Min(SegmentCap, n)

Ids(lcs) == [k \in 1..Len(lcs) |-> lcs[k].id]

\* line 83: the entry point calls load_lightcurve; line 20-23: the search
\* returns and the list starts empty
Search ==
    /\ pc = "start"
    /\ stages' = Append(stages, "load_lightcurve")
    /\ i' = 0
    /\ lc_combined' = <<>>
    /\ pc' = "loop"
    /\ UNCHANGED others
    /\ UNCHANGED <<archive, attempts, failure, handed, stitched, time, flux,
                   loadOut, detIn, results, best, valIn, folded_time>>

\* lines 24-28, one iteration whose download succeeds
Download ==
    /\ pc = "loop"
    /\ i < LoopBound(archive.n)
    /\ attempts' = Append(attempts, i)
    /\ lc_combined' = Append(lc_combined, normalize(remove_nans(RawSegment(archive, i))))
    /\ i' = i + 1
    /\ UNCHANGED others
    /\ UNCHANGED <<pc, archive, failure, handed, stitched, stages, time, flux,
                   loadOut, detIn, results, best, valIn, folded_time>>

\* faulty variant: the failure is swallowed and the loop goes on to the next segment
DownloadFail_Swallowed ==
    /\ pc = "loop"
    /\ i < LoopBound(archive.n)
    /\ attempts' = Append(attempts, i)
    /\ failure' = "RetrievalFailure"
    /\ i' = i + 1
    /\ UNCHANGED others
    /\ UNCHANGED <<pc, archive, lc_combined, handed, stitched, stages, time, flux,
                   loadOut, detIn, results, best, valIn, folded_time>>

\* line 25, download() raises: nothing catches it, in load_lightcurve or in
\* the entry point, and the run ends
DownloadFail ==
    /\ pc = "loop"
    /\ i < LoopBound(archive.n)
    /\ attempts' = Append(attempts, i)
    /\ failure' = "RetrievalFailure"
    /\ pc' = "aborted"
    /\ UNCHANGED others
    /\ UNCHANGED <<archive, i, lc_combined, handed, stitched, stages, time, flux,
                   loadOut, detIn, results, best, valIn, folded_time>>

\* lines 31-36 with at least one segment: stitch, print, return; line 83
\* binds time and flux
StitchReturn ==
    /\ pc = "loop"
    /\ i >= LoopBound(archive.n)
    /\ lc_combined # <<>>
    /\ handed' = Ids(lc_combined)
    /\ stitched' = TRUE
    /\ LET lc == stitch(lc_combined)
       IN  /\ time' = lc.time
           /\ flux' = lc.flux
           /\ loadOut' = [time |-> lc.time, flux |-> lc.flux]
    /\ pc' = "loaded"
    /\ UNCHANGED others
    /\ UNCHANGED <<archive, i, lc_combined, attempts, failure, stages, detIn,
                   results, best, valIn, folded_time>>

\* lines 31-32 with no segment: the loop body never ran, the empty collection
\* is built and stitch() is called on it; the library raises from inside it
StitchEmpty ==
    /\ pc = "loop"
    /\ i >= LoopBound(archive.n)
    /\ lc_combined = <<>>
    /\ handed' = Ids(lc_combined)
    /\ stitched' = TRUE
    /\ failure' = "StitchFailure"
    /\ pc' = "aborted"
    /\ UNCHANGED others
    /\ UNCHANGED <<archive, i, lc_combined, attempts, stages, time, flux,
                   loadOut, detIn, results, best, valIn, folded_time>>

(***************************************************************************)
(* The entry point after the load.  Line 86, the call of                   *)
(* preprocess_lightcurve, is a comment: the next statement is line 89.     *)
(***************************************************************************)
\* what bls.power(periods, durations) may return for the loaded curve: any
\* statistics over the fixed period grid, epochs near the first timestamp
EngineResult(t, pw, eo, do) ==
    Surface(MaxGrid, pw,
            [k \in 1..MaxGrid |-> t[1] + ((k + eo) % 2)],
            [k \in 1..MaxGrid |-> 1 + ((k + do) % 2)])

\* line 89
MainDetect ==
    /\ pc = "loaded"
    /\ stages' = Append(stages, "detect_transits")
    /\ detIn' = [time |-> time, flux |-> flux]
    /\ \E pw \in [1..MaxGrid -> 0..MaxPower], eo \in {0, 1}, do \in {0, 1} :
          /\ results' = EngineResult(time, pw, eo, do)
          /\ best' = detect_select(EngineResult(time, pw, eo, do))
    /\ pc' = "detected"
    /\ UNCHANGED others
    /\ UNCHANGED <<archive, i, lc_combined, attempts, failure, handed, stitched,
                   time, flux, loadOut, valIn, folded_time>>

\* faulty variant: period and t0 change places in the call
MainValidate_Swapped ==
    /\ pc = "detected"
    /\ stages' = Append(stages, "validate_transits")
    /\ valIn' = [time |-> time, flux |-> flux, period |-> best.t0,
                 t0 |-> best.period, duration |-> best.duration]
    /\ folded_time' = [k \in 1..Len(time) |-> Fold2(time[k], best.period, best.t0)]
    /\ pc' = "done"
    /\ UNCHANGED others
    /\ UNCHANGED <<archive, i, lc_combined, attempts, failure, handed, stitched,
                   time, flux, loadOut, detIn, results, best>>

\* line 92 and lines 68-78
MainValidate ==
    /\ pc = "detected"
    /\ stages' = Append(stages, "validate_transits")
    /\ valIn' = [time |-> time, flux |-> flux, period |-> best.period,
                 t0 |-> best.t0, duration |-> best.duration]
    /\ folded_time' = [k \in 1..Len(time) |-> Fold2(time[k], best.t0, best.period)]
    /\ pc' = "done"
    /\ UNCHANGED others
    /\ UNCHANGED <<archive, i, lc_combined, attempts, failure, handed, stitched,
                   time, flux, loadOut, detIn, results, best>>

Init ==
    /\ pc = "start"
    /\ archive \in Archives
    /\ i = 0 /\ lc_combined = <<>> /\ attempts = <<>> /\ failure = "none"
    /\ handed = <<>> /\ stitched = FALSE /\ stages = <<>>
    /\ time = <<>> /\ flux = <<>> /\ loadOut = NoCurve /\ detIn = NoCurve
    /\ results = NoSurface /\ best = NoCandidate
    /\ valIn = [time |-> <<>>, flux |-> <<>>, period |-> 0, t0 |-> 0, duration |-> 0]
    /\ folded_time = <<>>
    /\ FoldIdle /\ PreIdle /\ DetIdle

Next ==
    \/ Search
    \/ Download
    \/ DownloadFail
    \/ StitchReturn
    \/ StitchEmpty
    \/ MainDetect
    \/ MainValidate

Spec == Init /\ [][Next]_vars

(***************************************************************************)
(* Claims.                                                                 *)
(***************************************************************************)
IsPrefix(s, t) == Len(s) <= Len(t) /\ \A k \in 1..Len(s) : s[k] = t[k]

StrictlyAscending(s) == \A k \in 1..(Len(s) - 1) : s[k] < s[k + 1]

UpTo(k) == [j \in 1..k |-> j - 1]

ThreeStages == <<"load_lightcurve", "detect_transits", "validate_transits">>
FourStages  == <<"load_lightcurve", "preprocess_lightcurve", "detect_transits",
                 "validate_transits">>

C2_EmptyNeverStitched == archive.n = 0 => ~stitched

\* C3: the downloads are the indices 0, 1, 2, ... in ascending order, each at
\* most once and never beyond min(20, n); once the loop is over, exactly the
\* first min(20, n) segments were downloaded and the collection handed to
\* stitch holds them in that order.
C3_FirstSegmentsInOrder ==
    /\ Len(attempts) <= Min(SegmentCap, archive.n)
    /\ attempts = UpTo(Len(attempts))
    /\ (pc = "loop" \/ stitched) => Ids(lc_combined) = attempts
    /\ stitched =>
          /\ attempts = UpTo(Min(SegmentCap, archive.n))
          /\ handed = attempts

C3_Witness ==
    /\ stitched /\ archive.n > SegmentCap
    /\ Len(handed) = SegmentCap /\ pc = "loaded"

\* C4: once a download has failed the run is over: the failed index is the
\* last download attempted and was attempted once, nothing was stitched, and
\* neither detect_transits nor validate_transits was called.
C4_DownloadFailureAborts ==
    failure = "RetrievalFailure" =>
        /\ pc = "aborted"
        /\ attempts = UpTo(Len(attempts))
        /\ Len(lc_combined) = Len(attempts) - 1
        /\ ~stitched /\ handed = <<>>
        /\ stages = <<"load_lightcurve">>
        /\ ~ENABLED Next

C4_Witness ==
    /\ failure = "RetrievalFailure"
    /\ Len(attempts) >= 2 /\ Len(attempts) < Min(SegmentCap, archive.n)

\* C5 as stated: the folded value lies in (-period/2, +period/2].
C5_RangeOpenBelow ==
    fpc = "folded" => (-fperiod < fphase /\ fphase <= fperiod)

\* C5 amended: the folded value lies in [-period/2, +period/2): at least
\* -period/2 and strictly below +period/2 (fphase is twice the folded value).
C5_RangeClosedBelow ==
    fpc = "folded" => (-fperiod <= fphase /\ fphase < fperiod)

C5_Witness == fpc = "folded" /\ fphase = -fperiod /\ ft < ft0

\* C6: the fold of t + period equals the fold of t, also for t < t0.
C6_FoldPeriodic == fpc = "folded" => fphaseNext = fphase

C6_Witness ==
    /\ fpc = "folded" /\ fphase # 0
    /\ 2 * (ft - ft0) + fperiod < 0 /\ 2 * (ft + fperiod - ft0) + fperiod > 0

\* C7 as stated, on the light curves that hold at least one sample: the
\* preprocessed flux of every valid light curve has median exactly 1.
C7_UnitMedianAlways ==
    (ppc # "in" /\ pin.flux # <<>>) => Median(pout1.flux) = One

\* C7 amended: for every valid, non-empty light curve whose flux median is
\* not zero, the preprocessed flux has median exactly 1.
C7_UnitMedianNonzero ==
    (ppc # "in" /\ pin.flux # <<>> /\ Median(pin.flux) # Zero)
        => Median(pout1.flux) = One

C7_Witness ==
    /\ ppc = "once" /\ Len(pin.flux) % 2 = 0 /\ Len(pin.flux) >= 4
    /\ Median(pin.flux)[2] = 2 /\ Median(pin.flux)[1] < 0
    /\ Median(pout1.flux) = One

\* C8 as stated: preprocessing twice gives what preprocessing once gives.
C8_IdempotentAlways == ppc = "twice" => pout2 = pout1

\* C8 amended: for every valid light curve that is empty or whose flux median
\* is not zero, preprocessing twice gives the same time and flux as
\* preprocessing once.
C8_IdempotentNonzero ==
    (ppc = "twice" /\ (pin.flux = <<>> \/ Median(pin.flux) # Zero))
        => pout2 = pout1

C8_Witness ==
    /\ ppc = "twice" /\ Len(pin.flux) >= 3
    /\ Median(pin.flux) \notin {Zero, One}
    /\ pout1 # pin /\ pout2 = pout1

\* the downloaded segments are each ascending and are listed in time order
\* with non-overlapping time ranges
OrderedArchive ==
    \A a, b \in 0..(Min(SegmentCap, archive.n) - 1) :
        /\ StrictlyAscending(RawSegment(archive, a).time)
        /\ a < b => RawSegment(archive, a).time[SegLen] < RawSegment(archive, b).time[1]

\* C9 as stated: whatever the archive lists, the loader returns time and flux
\* of equal length and a strictly ascending time.
C9_AscendingAlways ==
    pc \in {"loaded", "detected", "done"} =>
        /\ Len(time) = Len(flux)
        /\ StrictlyAscending(time)

\* C9 amended: the loader returns time and flux of equal length; the time is
\* strictly ascending when the downloaded segments are each ascending and
\* are listed in time order with non-overlapping time ranges.
C9_AscendingWhenOrdered ==
    pc \in {"loaded", "detected", "done"} =>
        /\ Len(time) = Len(flux)
        /\ OrderedArchive => StrictlyAscending(time)

C9_Witness ==
    /\ pc = "loaded" /\ archive.n >= 3 /\ archive.gaps /\ OrderedArchive
    /\ Len(time) < SegLen * Len(handed)

\* C10: the selected index holds a statistic >= every other, is the first
\* index that does, and period, epoch and duration are the surface's values
\* at that index; the surface is returned unchanged.
C10_FirstMaximum ==
    dpc = "selected" =>
        \E b \in 1..Len(dsurf.power) :
            /\ \A k \in 1..Len(dsurf.power) : dsurf.power[b] >= dsurf.power[k]
            /\ \A k \in 1..(b - 1) : dsurf.power[k] < dsurf.power[b]
            /\ dout.period = dsurf.period[b]
            /\ dout.t0 = dsurf.transit_time[b]
            /\ dout.duration = dsurf.duration[b]
            /\ dout.results = dsurf

C10_Witness ==
    /\ dpc = "selected" /\ Len(dsurf.power) = 3
    /\ dsurf.power[1] < dsurf.power[2] /\ dsurf.power[2] = dsurf.power[3]
    /\ dsurf.transit_time[2] # dsurf.transit_time[3]
    /\ dout.period = dsurf.period[2]

====
